---- MODULE Spec2Model ----
(***************************************************************************)
(* Model of the Meta Ads Compliance Scanner backend (src/main.py): the     *)
(* scan pipeline (classifier reply -> candidate payload -> json.loads ->   *)
(* ScanResult row -> ScanResponse), the history and details endpoints, and *)
(* the scoping of store sessions inside the request handlers.              *)
(*                                                                         *)
(* Text is modelled as a sequence of lexical tokens: the classifier reply, *)
(* the candidate payload, and the violations / recommendations columns.    *)
(* Python values are tagged records of one shape.                          *)
(***************************************************************************)
EXTENDS Integers, Sequences, FiniteSets, TLC

VARIABLES
    store,      \* the scan_results table: a sequence of rows, in insertion order
    produced,   \* per row, the analysis dict scan_ad built the row from
    resp,       \* the outcome of the last handler that ran
    dialect,    \* the engine DATABASE_URL selects: "sqlite" or "postgresql"
    raw,        \* the reply text the last classifier call returned
    cand,       \* the candidate payload analyze_with_ai chose from it
    result,     \* what analyze_with_ai returned for it
    pc,         \* per request: the handler's position
    req,        \* per request: its kind and inputs
    session,    \* per request: "none", "open" or "closed"
    local       \* per request: the handler's local variables

vars == <<store, produced, resp, dialect, raw, cand, result, pc, req, session, local>>

----------------------------------------------------------------------------
(* Bounds of the model *)

MaxReplyLen == 4
MaxScans == 2
MaxHistScans == 3
MaxTime == 2
MaxLimit == 2
MaxOver == 2
NumReq == 2
MaxConcScans == 1

(* Program constants *)

PreviewLen == 100
DegradedScore == 50
DefaultLimit == 10

----------------------------------------------------------------------------
(* Python values *)

V(t, s, n, items) == [t |-> t, s |-> s, n |-> n, items |-> items]
Str(s) == V("str", s, 0, <<>>)
PyInt(n) == V("int", "", n, <<>>)
Flt(s) == V("float", s, 0, <<>>)
Bool(n) == V("bool", "", n, <<>>)
None == V("none", "", 0, <<>>)
List(items) == V("list", "", 0, items)
\* a dict keeps insertion order: items alternate key, value
Dict(items) == V("dict", "", 0, items)

RECURSIVE DictFind(_, _, _)
DictFind(items, key, i) ==
    IF i > Len(items) THEN 0
    ELSE IF items[i] = key THEN i
    ELSE DictFind(items, key, i + 2)

\* d[key] = value on a dict's items: a present key keeps its place
DictSet(items, key, value) ==
    LET i == DictFind(items, key, 1)
    IN IF i = 0 THEN items \o <<key, value>>
       ELSE [items EXCEPT ![i + 1] = value]

\* obj[key] for a string key: only a dict that has the key answers
GetItem(obj, key) ==
    IF obj.t = "dict" /\ DictFind(obj.items, Str(key), 1) # 0
    THEN [ok |-> TRUE, val |-> obj.items[DictFind(obj.items, Str(key), 1) + 1]]
    ELSE [ok |-> FALSE, val |-> None]

----------------------------------------------------------------------------
(* Tokens of text *)

Tok(k, s, n) == [k |-> k, s |-> s, n |-> n]
P(s) == Tok("punct", s, 0)
LBRACE == P("{")
RBRACE == P("}")
LBRACK == P("[")
RBRACK == P("]")
COLON == P(":")
COMMA == P(",")
S(s) == Tok("str", s, 0)
N(n) == Tok("num", "", n)
Name(s) == Tok("name", s, 0)
Prose(s) == Tok("prose", s, 0)
FenceOpen == Tok("fence", "open", 0)
FenceClose == Tok("fence", "close", 0)

----------------------------------------------------------------------------
(* json.loads and ast.literal_eval: one recursive-descent reader of a token
   sequence, in the two languages.  A result is [ok, val, next, err]. *)

ParseOk(val, next) == [ok |-> TRUE, val |-> val, next |-> next, err |-> ""]
ParseFail(err) == [ok |-> FALSE, val |-> None, next |-> 0, err |-> err]

\* the bare words each language reads as a value
Names(lang) ==
    IF lang = "json" THEN {"true", "false", "null", "NaN", "Infinity", "-Infinity"}
    ELSE {"True", "False", "None"}

Const(lang, s) ==
    IF s \in {"true", "True"} THEN Bool(1)
    ELSE IF s \in {"false", "False"} THEN Bool(0)
    ELSE IF s \in {"null", "None"} THEN None
    ELSE IF s = "NaN" THEN Flt("nan")
    ELSE IF s = "Infinity" THEN Flt("inf")
    ELSE Flt("-inf")

Hashable(v) == v.t \notin {"list", "dict"}

RECURSIVE ParseValue(_, _, _), ParseItems(_, _, _, _), ParseMembers(_, _, _, _)

ParseValue(lang, toks, i) ==
    IF i > Len(toks) THEN ParseFail("Expecting value")
    ELSE LET t == toks[i]
         IN IF t.k = "str" THEN ParseOk(Str(t.s), i + 1)
            ELSE IF t.k = "num" THEN ParseOk(PyInt(t.n), i + 1)
            ELSE IF t.k = "name" /\ t.s \in Names(lang)
                 THEN ParseOk(Const(lang, t.s), i + 1)
            ELSE IF t = LBRACK
                 THEN IF i + 1 <= Len(toks) /\ toks[i + 1] = RBRACK
                      THEN ParseOk(List(<<>>), i + 2)
                      ELSE ParseItems(lang, toks, i + 1, <<>>)
            ELSE IF t = LBRACE
                 THEN IF i + 1 <= Len(toks) /\ toks[i + 1] = RBRACE
                      THEN ParseOk(Dict(<<>>), i + 2)
                      ELSE ParseMembers(lang, toks, i + 1, <<>>)
            ELSE ParseFail("Expecting value")

\* the elements of a list, after "[" or after a ","
ParseItems(lang, toks, i, acc) ==
    LET v == ParseValue(lang, toks, i)
    IN IF ~v.ok THEN v
       ELSE IF v.next > Len(toks) THEN ParseFail("Expecting ',' delimiter")
       ELSE IF toks[v.next] = RBRACK
            THEN ParseOk(List(Append(acc, v.val)), v.next + 1)
       ELSE IF toks[v.next] = COMMA
            THEN IF lang = "py" /\ v.next + 1 <= Len(toks) /\ toks[v.next + 1] = RBRACK
                 THEN ParseOk(List(Append(acc, v.val)), v.next + 2)
                 ELSE ParseItems(lang, toks, v.next + 1, Append(acc, v.val))
       ELSE ParseFail("Expecting ',' delimiter")

\* the members of an object / dict display, after "{" or after a ","
ParseMembers(lang, toks, i, acc) ==
    LET k == IF lang = "json"
             THEN IF i <= Len(toks) /\ toks[i].k = "str"
                  THEN ParseOk(Str(toks[i].s), i + 1)
                  ELSE ParseFail("Expecting property name enclosed in double quotes")
             ELSE ParseValue(lang, toks, i)
    IN IF ~k.ok THEN k
       ELSE IF ~Hashable(k.val) THEN ParseFail("unhashable type")
       ELSE IF k.next > Len(toks) \/ toks[k.next] # COLON
            THEN ParseFail("Expecting ':' delimiter")
       ELSE LET v == ParseValue(lang, toks, k.next + 1)
            IN IF ~v.ok THEN v
               ELSE IF v.next > Len(toks) THEN ParseFail("Expecting ',' delimiter")
               ELSE IF toks[v.next] = RBRACE
                    THEN ParseOk(Dict(DictSet(acc, k.val, v.val)), v.next + 1)
               ELSE IF toks[v.next] = COMMA
                    THEN IF lang = "py" /\ v.next + 1 <= Len(toks)
                            /\ toks[v.next + 1] = RBRACE
                         THEN ParseOk(Dict(DictSet(acc, k.val, v.val)), v.next + 2)
                         ELSE ParseMembers(lang, toks, v.next + 1,
                                           DictSet(acc, k.val, v.val))
               ELSE ParseFail("Expecting ',' delimiter")

\* one value, then the end of the text
Loads(lang, toks) ==
    LET r == ParseValue(lang, toks, 1)
    IN IF ~r.ok THEN r
       ELSE IF r.next <= Len(toks) THEN ParseFail("Extra data")
       ELSE r

JsonLoads(toks) == Loads("json", toks)
LiteralEval(toks) == Loads("py", toks)

----------------------------------------------------------------------------
(* str() of a Python value, as tokens *)

RECURSIVE PyRepr(_), ReprSeq(_, _, _)

\* repr(): a float that is not finite prints as the bare word inf, -inf or nan
PyRepr(v) ==
    IF v.t = "str" THEN <<S(v.s)>>
    ELSE IF v.t = "int" THEN <<N(v.n)>>
    ELSE IF v.t = "float" THEN <<Name(v.s)>>
    ELSE IF v.t = "bool" THEN <<Name(IF v.n = 1 THEN "True" ELSE "False")>>
    ELSE IF v.t = "none" THEN <<Name("None")>>
    ELSE IF v.t = "list" THEN <<LBRACK>> \o ReprSeq(v.items, 1, FALSE) \o <<RBRACK>>
    ELSE <<LBRACE>> \o ReprSeq(v.items, 1, TRUE) \o <<RBRACE>>

ReprSeq(items, i, isDict) ==
    IF i > Len(items) THEN <<>>
    ELSE PyRepr(items[i])
         \o (IF i = Len(items) THEN <<>>
             ELSE IF isDict /\ i % 2 = 1 THEN <<COLON>>
             ELSE <<COMMA>>)
         \o ReprSeq(items, i + 1, isDict)

\* the tokens the characters of a string make when read as source text
Lex(s) ==
    IF s = "" THEN <<>>
    ELSE IF s = "[]" THEN <<LBRACK, RBRACK>>
    ELSE <<Name(s)>>

\* str(): a string is written as it is, without quotes; anything else as repr()
PyStr(v) == IF v.t = "str" THEN Lex(v.s) ELSE PyRepr(v)

----------------------------------------------------------------------------
(* analyze_with_ai *)

Positions(text, t) == {i \in 1..Len(text) : text[i] = t}
MinOf(I) == CHOOSE i \in I : \A j \in I : i <= j
MaxOf(I) == CHOOSE i \in I : \A j \in I : j <= i

\* re.search(r'```json\n(.*?)\n```', text, re.DOTALL): the leftmost opening
\* fence that a closing fence follows, up to the first closing fence after it
FenceMatch(text) ==
    LET opens == Positions(text, FenceOpen)
        o == IF opens = {} THEN 0 ELSE MinOf(opens)
        closes == {c \in Positions(text, FenceClose) : c > o}
    IN IF o = 0 \/ closes = {} THEN [found |-> FALSE, group |-> <<>>]
       ELSE [found |-> TRUE, group |-> SubSeq(text, o + 1, MinOf(closes) - 1)]

\* re.search(r'\{.*\}', text, re.DOTALL): from the leftmost "{" that a "}"
\* follows to the last "}"
BraceMatch(text) ==
    LET lefts == Positions(text, LBRACE)
        b == IF lefts = {} THEN 0 ELSE MinOf(lefts)
        rights == {e \in Positions(text, RBRACE) : e > b}
    IN IF b = 0 \/ rights = {} THEN [found |-> FALSE, group |-> <<>>]
       ELSE [found |-> TRUE, group |-> SubSeq(text, b, MaxOf(rights))]

\* the two searches in the other order
ExtractCandidateBraceFirst(text) ==
    IF BraceMatch(text).found THEN BraceMatch(text).group
    ELSE IF FenceMatch(text).found THEN FenceMatch(text).group
    ELSE text

ExtractCandidate(text) ==
    IF FenceMatch(text).found THEN FenceMatch(text).group
    ELSE IF BraceMatch(text).found THEN BraceMatch(text).group
    ELSE text

\* the except branch's dict; msg stands for "Could not complete analysis: " + str(e)
Degraded(msg) ==
    Dict(<<Str("compliance_score"), PyInt(DegradedScore),
           Str("risk_level"), Str("MEDIUM"),
           Str("violations"),
               List(<<Dict(<<Str("category"), Str("Analysis Error"),
                             Str("severity"), Str("MEDIUM"),
                             Str("issue"), Str(msg),
                             Str("text_snippet"), Str(""),
                             Str("policy_reference"), Str("System Error")>>)>>),
           Str("recommendations"), List(<<Str("Please try again or contact support")>>),
           Str("summary"),
               Str("Analysis could not be completed due to technical error")>>)

\* a classifier call either raises (kind "error") or returns text (kind "text")
CallError(msg) == [kind |-> "error", msg |-> msg, text |-> <<>>]
CallText(text) == [kind |-> "text", msg |-> "", text |-> text]

\* json.loads left outside the try block: a reply that does not parse yields
\* no dict at all
AnalyzeWithAiUnguarded(outcome) ==
    IF outcome.kind = "error" THEN Degraded(outcome.msg)
    ELSE JsonLoads(ExtractCandidate(outcome.text)).val

AnalyzeWithAi(outcome) ==
    IF outcome.kind = "error" THEN Degraded(outcome.msg)
    ELSE LET r == JsonLoads(ExtractCandidate(outcome.text))
         IN IF r.ok THEN r.val ELSE Degraded(r.err)

----------------------------------------------------------------------------
(* Inputs *)

RECURSIVE Join(_, _)
Join(parts, i) ==
    IF i > Len(parts) THEN <<>>
    ELSE parts[i] \o (IF i = Len(parts) THEN <<>> ELSE <<COMMA>>) \o Join(parts, i + 1)

Field(k, v) == <<S(k), COLON>> \o v
Obj(fields) == <<LBRACE>> \o Join(fields, 1) \o <<RBRACE>>
Arr(elems) == <<LBRACK>> \o Join(elems, 1) \o <<RBRACK>>

\* the JSON text of a reply with the given field texts; an empty text leaves
\* the field out
ReplyObj(score, risk, viol, recs, summ) ==
    Obj(SelectSeq(<<IF score = <<>> THEN <<>> ELSE Field("compliance_score", score),
                    IF risk = <<>> THEN <<>> ELSE Field("risk_level", risk),
                    IF viol = <<>> THEN <<>> ELSE Field("violations", viol),
                    IF recs = <<>> THEN <<>> ELSE Field("recommendations", recs),
                    IF summ = <<>> THEN <<>> ELSE Field("summary", summ)>>,
                  LAMBDA f : f # <<>>))

ViolText ==
    Arr(<<Obj(<<Field("category", <<S("Health & Weight Loss")>>),
                Field("severity", <<S("HIGH")>>),
                Field("issue", <<S("Guaranteed result")>>),
                Field("text_snippet", <<S("Guaranteed results!")>>),
                Field("policy_reference", <<S("Health")>>)>>)>>)
NanViolText ==
    Arr(<<Obj(<<Field("category", <<S("Health & Weight Loss")>>),
                Field("confidence", <<Name("NaN")>>)>>)>>)
RecsText == Arr(<<<<S("Remove the guarantee")>>, <<S("Drop the time claim")>>>>)
SummText == <<S("High risk")>>

GoodText == ReplyObj(<<N(35)>>, <<S("HIGH")>>, ViolText, RecsText, SummText)
CleanText == ReplyObj(<<N(100)>>, <<S("LOW")>>, Arr(<<>>), Arr(<<>>), <<S("Compliant")>>)

\* replies of the shapes the prompt asks for, and of shapes it does not
ReplyTexts ==
    { GoodText,
      CleanText,
      <<Prose("Here is the analysis"), LBRACE, Prose("see below"), RBRACE, FenceOpen>>
          \o GoodText \o <<FenceClose, Prose("Done")>>,
      <<Prose("Here is the analysis")>> \o CleanText \o <<Prose("Done")>>,
      GoodText \o <<Prose("or")>> \o CleanText,
      <<FenceOpen, Prose("to do"), FenceClose>> \o GoodText,
      <<Prose("I cannot help with that")>>,
      <<LBRACE, Prose("cut off")>>,
      <<LBRACE, RBRACE>>,
      <<LBRACK, N(1), RBRACK>>,
      <<N(5)>>,
      ReplyObj(<<N(150)>>, <<S("EXTREME")>>, ViolText, RecsText, SummText),
      ReplyObj(<<N(-5)>>, <<S("LOW")>>, Arr(<<>>), RecsText, SummText),
      ReplyObj(<<N(35)>>, <<S("HIGH")>>, NanViolText, RecsText, SummText),
      ReplyObj(<<N(35)>>, <<S("HIGH")>>, <<S("none")>>, RecsText, SummText),
      ReplyObj(<<N(35)>>, <<S("HIGH")>>, ViolText, <<S("[]")>>, SummText),
      ReplyObj(<<N(35)>>, <<S("HIGH")>>, ViolText, RecsText, <<>>),
      ReplyObj(<<Name("null")>>, <<S("HIGH")>>, ViolText, RecsText, SummText),
      ReplyObj(<<S("high")>>, <<S("HIGH")>>, ViolText, RecsText, SummText),
      ReplyObj(<<N(35)>>, <<N(3)>>, ViolText, RecsText, SummText),
      ReplyObj(<<N(35)>>, <<>>, ViolText, RecsText, SummText) }

Outcomes == {CallText(t) : t \in ReplyTexts} \cup {CallError("Connection error")}

\* every text of at most MaxReplyLen tokens over the tokens the extractor
\* tells apart
ReplyAlphabet == {FenceOpen, FenceClose, LBRACE, RBRACE, N(1), Prose("text")}
ShortTexts == UNION {[1..n -> ReplyAlphabet] : n \in 0..MaxReplyLen}

\* an ad copy of n characters whose last character differs from the others
AdCopy(n) == [i \in 1..n |-> IF i = n THEN "!" ELSE "a"]
ShortCopy == <<"S", "a", "l", "e">>
LongCopies == {AdCopy(PreviewLen - 1 + k) : k \in 0..MaxOver}

NoImage == None
Times == 1..MaxTime
Limits == (-1)..MaxLimit

----------------------------------------------------------------------------
(* The scan_results table and the column types of ScanResult *)

\* the highest id in use, not the one after it
NextIdReused(rows) == IF rows = <<>> THEN 1 ELSE Len(rows)

\* id = Column(Integer, primary_key=True): the engine numbers the rows 1, 2, ...
\* and no row is ever deleted
NextId(rows) == Len(rows) + 1

\* Column(Float): None is stored as NULL, a number as a float; a value float()
\* refuses fails the flush.  (The strings drawn here are not numerals.)
FloatBindable(v) == v.t \in {"int", "float", "bool", "none"}
ColumnFloat(v) == IF v.t = "bool" THEN PyInt(v.n) ELSE v

\* Column(String): None is stored as NULL, a string as it is, a number as its
\* decimal text; the driver refuses a list or a dict
StringBindable(v) == v.t \in {"str", "none", "int", "bool", "float"}
ColumnString(v) ==
    IF v.t \in {"int", "bool"} THEN Str(ToString(v.n))
    ELSE IF v.t = "float" THEN Str(v.s)
    ELSE v

\* the ScanResult(...) constructor call of scan_ad: the four subscripts of
\* analysis, and str() of the two lists
RowFields(analysis) ==
    LET sc == GetItem(analysis, "compliance_score")
        rl == GetItem(analysis, "risk_level")
        vi == GetItem(analysis, "violations")
        re == GetItem(analysis, "recommendations")
    IN [ok |-> sc.ok /\ rl.ok /\ vi.ok /\ re.ok,
        compliance_score |-> sc.val,
        risk_level |-> rl.val,
        violations |-> PyStr(vi.val),
        recommendations |-> PyStr(re.val)]

\* db.add, db.commit: the INSERT's parameters are bound column by column
Bindable(f) == FloatBindable(f.compliance_score) /\ StringBindable(f.risk_level)

\* risk_level filled with a fixed level, not with the analysis's
NewRowFixedLevel(rows, user_id, ad_copy, image_name, f, now) ==
    [id |-> NextId(rows),
     user_id |-> user_id,
     ad_copy |-> ad_copy,
     image_name |-> image_name,
     compliance_score |-> ColumnFloat(f.compliance_score),
     risk_level |-> Str("MEDIUM"),
     violations |-> f.violations,
     recommendations |-> f.recommendations,
     created_at |-> now]

\* the row as db.refresh reads it back; created_at is the column default,
\* datetime.utcnow() taken at the INSERT
NewRow(rows, user_id, ad_copy, image_name, f, now) ==
    [id |-> NextId(rows),
     user_id |-> user_id,
     ad_copy |-> ad_copy,
     image_name |-> image_name,
     compliance_score |-> ColumnFloat(f.compliance_score),
     risk_level |-> ColumnString(f.risk_level),
     violations |-> f.violations,
     recommendations |-> f.recommendations,
     created_at |-> now]

----------------------------------------------------------------------------
(* ScanResponse *)

AllOfType(v, t) == \A i \in 1..Len(v.items) : v.items[i].t = t

\* the field types of ScanResponse: float, str, List[dict], List[str], str
ValidScanResponse(analysis) ==
    /\ GetItem(analysis, "summary").ok
    /\ GetItem(analysis, "compliance_score").val.t \in {"int", "float", "bool"}
    /\ GetItem(analysis, "risk_level").val.t = "str"
    /\ GetItem(analysis, "violations").val.t = "list"
    /\ AllOfType(GetItem(analysis, "violations").val, "dict")
    /\ GetItem(analysis, "recommendations").val.t = "list"
    /\ AllOfType(GetItem(analysis, "recommendations").val, "str")
    /\ GetItem(analysis, "summary").val.t = "str"

NoBody == [none |-> TRUE]
NoReq == [none |-> TRUE]
Response(op, status, rq, body) == [op |-> op, status |-> status, req |-> rq, body |-> body]
NoResp == Response("none", 0, NoReq, NoBody)

\* the requests in progress, and what a handler holds between its statements
Reqs == 1..NumReq
Pending == V("pending", "", 0, <<>>)
Request(kind, user_id, scan_id, limit) ==
    [kind |-> kind, user_id |-> user_id, scan_id |-> scan_id, limit |-> limit]
NoRequest == Request("none", "", 0, 0)
Local(analysis, status, body) == [analysis |-> analysis, status |-> status, body |-> body]
NoLocal == Local(Pending, 0, NoBody)

ScanBody(row, analysis) ==
    [scan_id |-> row.id,
     compliance_score |-> GetItem(analysis, "compliance_score").val,
     risk_level |-> GetItem(analysis, "risk_level").val,
     violations |-> GetItem(analysis, "violations").val,
     recommendations |-> GetItem(analysis, "recommendations").val,
     summary |-> GetItem(analysis, "summary").val]

----------------------------------------------------------------------------
(* POST /scan, as one step *)

\* analyze_with_ai, tabulated over the classifier outcomes drawn
Analysis == [o \in Outcomes |-> AnalyzeWithAi(o)]

\* what the handler does to the table and what it answers, given the dict
\* analyze_with_ai returned, the clock and whether the store is reachable
ScanOutcome(rows, user_id, ad_copy, image_name, analysis, now, dbUp) ==
    LET f == RowFields(analysis)
        row == NewRow(rows, user_id, ad_copy, image_name, f, now)
    IN IF ~dbUp \/ ~f.ok \/ ~Bindable(f)
       THEN [committed |-> FALSE, analysis |-> analysis, rows |-> rows,
             status |-> 500, body |-> NoBody]
       ELSE IF ~ValidScanResponse(analysis)
       THEN [committed |-> TRUE, analysis |-> analysis, rows |-> Append(rows, row),
             status |-> 500, body |-> NoBody]
       ELSE [committed |-> TRUE, analysis |-> analysis, rows |-> Append(rows, row),
             status |-> 200, body |-> ScanBody(row, analysis)]

ScanReq(user_id, ad_copy, image_name, outcome, dbUp) ==
    [user_id |-> user_id, ad_copy |-> ad_copy, image_name |-> image_name,
     outcome |-> outcome, dbUp |-> dbUp]

ScanAd(user_id, ad_copy, image_name, outcome, now, dbUp, maxRows) ==
    /\ Len(store) < maxRows
    /\ \E analysis \in {Analysis[outcome]} :
       \E o \in {ScanOutcome(store, user_id, ad_copy, image_name, analysis, now, dbUp)} :
          /\ store' = o.rows
          /\ produced' = IF o.committed THEN Append(produced, o.analysis) ELSE produced
          /\ resp' = Response("scan", o.status,
                              ScanReq(user_id, ad_copy, image_name, outcome, dbUp), o.body)
    /\ UNCHANGED <<dialect, raw, cand, result, pc, req, session, local>>

----------------------------------------------------------------------------
(* GET /history/{user_id} *)

Ellipsis == <<".", ".", ".">>

\* the comparison off by one: >= 100
PreviewOffByOne(ad_copy) ==
    IF Len(ad_copy) >= PreviewLen
    THEN SubSeq(ad_copy, 1, PreviewLen) \o <<".", ".", ".">>
    ELSE ad_copy

\* s.ad_copy[:100] + "..." if len(s.ad_copy) > 100 else s.ad_copy
Preview(ad_copy) ==
    IF Len(ad_copy) > PreviewLen
    THEN SubSeq(ad_copy, 1, PreviewLen) \o Ellipsis
    ELSE ad_copy

Summary(row) ==
    [scan_id |-> row.id,
     compliance_score |-> row.compliance_score,
     risk_level |-> row.risk_level,
     created_at |-> row.created_at,
     ad_copy_preview |-> Preview(row.ad_copy)]

\* .filter(user_id == ...).order_by(created_at.desc()): every order of the
\* user's rows that is descending in created_at (equal times in any order)
OrderedRows(rows, user_id) ==
    LET mine == {i \in 1..Len(rows) : rows[i].user_id = user_id}
        n == Cardinality(mine)
    IN {[k \in 1..n |-> rows[p[k]]] :
           p \in {q \in [1..n -> mine] :
                    /\ \A a, b \in 1..n : a # b => q[a] # q[b]
                    /\ \A a, b \in 1..n :
                          a < b => rows[q[a]].created_at >= rows[q[b]].created_at}}

\* .limit(limit): LIMIT n with n >= 0 keeps the first n rows; with n < 0
\* SQLite keeps every row and PostgreSQL rejects the statement
Limited(ordered, limit, engine) ==
    IF limit >= 0
    THEN [ok |-> TRUE,
          rows |-> SubSeq(ordered, 1, IF limit < Len(ordered) THEN limit ELSE Len(ordered))]
    ELSE IF engine = "sqlite" THEN [ok |-> TRUE, rows |-> ordered]
    ELSE [ok |-> FALSE, rows |-> <<>>]

HistoryBody(user_id, scans) ==
    [user_id |-> user_id,
     total_scans |-> Len(scans),
     scans |-> [k \in 1..Len(scans) |-> Summary(scans[k])]]

GetScanHistory(user_id, limit) ==
    /\ \E ordered \in OrderedRows(store, user_id) :
          LET q == Limited(ordered, limit, dialect)
          IN resp' = IF q.ok
                     THEN Response("history", 200, [user_id |-> user_id, limit |-> limit],
                                   HistoryBody(user_id, q.rows))
                     ELSE Response("history", 500, [user_id |-> user_id, limit |-> limit],
                                   NoBody)
    /\ UNCHANGED <<store, produced, dialect, raw, cand, result, pc, req, session, local>>

----------------------------------------------------------------------------
(* GET /scan/{scan_id} *)

\* .filter(ScanResult.id == scan_id).first()
FindById(rows, scan_id) == {i \in 1..Len(rows) : rows[i].id = scan_id}

DetailsOutcome(rows, scan_id) ==
    LET found == FindById(rows, scan_id)
    IN IF found = {} THEN [status |-> 404, body |-> NoBody]
       ELSE LET row == rows[MinOf(found)]
                vi == LiteralEval(row.violations)
                re == LiteralEval(row.recommendations)
            IN IF ~vi.ok \/ ~re.ok THEN [status |-> 500, body |-> NoBody]
               ELSE [status |-> 200,
                     body |-> [scan_id |-> row.id,
                               ad_copy |-> row.ad_copy,
                               compliance_score |-> row.compliance_score,
                               risk_level |-> row.risk_level,
                               violations |-> vi.val,
                               recommendations |-> re.val,
                               created_at |-> row.created_at]]

GetScanDetails(scan_id) ==
    /\ \E o \in {DetailsOutcome(store, scan_id)} :
          resp' = Response("details", o.status, [scan_id |-> scan_id], o.body)
    /\ UNCHANGED <<store, produced, dialect, raw, cand, result, pc, req, session, local>>

----------------------------------------------------------------------------
(* The handlers as single steps: every reply shape, one user *)

Init ==
    /\ store = <<>>
    /\ produced = <<>>
    /\ resp = NoResp
    /\ dialect = "sqlite"
    /\ raw = <<>>
    /\ cand = <<>>
    /\ result = Pending
    /\ pc = [r \in Reqs |-> "idle"]
    /\ req = [r \in Reqs |-> NoRequest]
    /\ session = [r \in Reqs |-> "none"]
    /\ local = [r \in Reqs |-> NoLocal]

Next ==
    \/ \E outcome \in Outcomes, dbUp \in BOOLEAN :
          ScanAd("u1", ShortCopy, NoImage, outcome, 1, dbUp, MaxScans)
    \/ GetScanHistory("u1", DefaultLimit)
    \/ \E scan_id \in 0..(MaxScans + 1) : GetScanDetails(scan_id)

Spec == Init /\ [][Next]_vars

----------------------------------------------------------------------------
(* Properties of POST /scan and GET /scan/{scan_id} *)

Levels == {"LOW", "MEDIUM", "HIGH", "CRITICAL"}
InRangeScore(v) == v.t = "int" /\ v.n >= 0 /\ v.n <= 100
ValidLevel(v) == v.t = "str" /\ v.s \in Levels

LastRow == store[Len(store)]
Ids == {store[i].id : i \in 1..Len(store)}
RowOf(scan_id) == store[CHOOSE i \in 1..Len(store) : store[i].id = scan_id]

\* no part of the text is a JSON document
NoJsonAnywhere(text) ==
    \A i \in 1..Len(text) : \A j \in i..Len(text) : ~JsonLoads(SubSeq(text, i, j)).ok

\* the classifier outcomes of C1: the call failed, or nothing in the reply parses
FailedOutcomes ==
    {o \in Outcomes : o.kind = "error" \/ (o.kind = "text" /\ NoJsonAnywhere(o.text))}

IsDegradedBody(b) ==
    /\ b.compliance_score = PyInt(50)
    /\ b.risk_level = Str("MEDIUM")
    /\ b.violations.t = "list"
    /\ Len(b.violations.items) = 1
    /\ GetItem(b.violations.items[1], "category") = [ok |-> TRUE, val |-> Str("Analysis Error")]

\* C1: when the classifier call fails or its reply holds no parsable JSON
\* anywhere (and the store is reachable), POST /scan answers 200 with score 50,
\* level MEDIUM and exactly one violation of category "Analysis Error", adds
\* exactly one row, and GET /scan/{scan_id} on the returned id retrieves it.
C1_DegradedScanCompletes ==
    [][resp'.op = "scan" /\ (store' # store \/ resp' # resp)
       /\ resp'.req.outcome \in FailedOutcomes /\ resp'.req.dbUp
       => /\ resp'.status = 200
          /\ IsDegradedBody(resp'.body)
          /\ store' = Append(store, store'[Len(store')])
          /\ store'[Len(store')].id = resp'.body.scan_id
          /\ store'[Len(store')].id \notin Ids
          /\ DetailsOutcome(store', resp'.body.scan_id).status = 200
          /\ DetailsOutcome(store', resp'.body.scan_id).body.scan_id = resp'.body.scan_id
          /\ DetailsOutcome(store', resp'.body.scan_id).body.violations
                = resp'.body.violations]_vars

C1_Witness ==
    /\ resp.op = "scan"
    /\ resp.req.outcome.kind = "text"
    /\ resp.req.outcome \in FailedOutcomes
    /\ resp.status = 200
    /\ Len(store) = 2

\* C2 (as claimed): for every classifier reply, POST /scan answers with a
\* well-formed response and persists a record.
C2_NeverPropagates ==
    resp.op = "scan" /\ resp.req.dbUp
    => /\ resp.status = 200
       /\ Len(store) >= 1
       /\ LastRow.id = resp.body.scan_id

\* C3 (as claimed): the response of POST /scan and the record it persists have
\* compliance_score in 0..100 and risk_level among the four levels.
C3_AlwaysInRange ==
    resp.op = "scan" /\ resp.status = 200
    => /\ InRangeScore(resp.body.compliance_score)
       /\ ValidLevel(resp.body.risk_level)
       /\ InRangeScore(LastRow.compliance_score)
       /\ ValidLevel(LastRow.risk_level)

\* what the reply itself says, read independently of the handler
ReplyParse(outcome) == JsonLoads(ExtractCandidate(outcome.text))
ReplyDegrades(outcome) == outcome.kind = "error" \/ ~ReplyParse(outcome).ok

\* C3 (amended): a response of POST /scan and the record persisted with it
\* carry 50 and MEDIUM when the classifier call failed or its candidate did not
\* parse, and otherwise exactly the reply's own compliance_score and
\* risk_level; so they lie in 0..100 and among the four levels whenever the
\* reply's values do.
C3_PassThrough ==
    resp.op = "scan" /\ resp.status = 200
    => /\ LastRow.id = resp.body.scan_id
       /\ LastRow.compliance_score = resp.body.compliance_score
       /\ LastRow.risk_level = resp.body.risk_level
       /\ IF ReplyDegrades(resp.req.outcome)
          THEN /\ resp.body.compliance_score = PyInt(50)
               /\ resp.body.risk_level = Str("MEDIUM")
          ELSE /\ [ok |-> TRUE, val |-> resp.body.compliance_score]
                     = GetItem(ReplyParse(resp.req.outcome).val, "compliance_score")
               /\ [ok |-> TRUE, val |-> resp.body.risk_level]
                     = GetItem(ReplyParse(resp.req.outcome).val, "risk_level")
               /\ (InRangeScore(GetItem(ReplyParse(resp.req.outcome).val,
                                        "compliance_score").val)
                      => InRangeScore(LastRow.compliance_score))
               /\ (ValidLevel(GetItem(ReplyParse(resp.req.outcome).val,
                                      "risk_level").val)
                      => ValidLevel(LastRow.risk_level))

C3_Witness ==
    /\ resp.op = "scan"
    /\ resp.status = 200
    /\ ~ReplyDegrades(resp.req.outcome)
    /\ ~InRangeScore(resp.body.compliance_score)
    /\ ~ValidLevel(LastRow.risk_level)

\* C4 (as claimed): for every persisted scan, GET /scan/{scan_id} returns
\* violations and recommendations equal to those of the analysis the scan
\* produced.
C4_RoundTrip ==
    resp.op = "details" /\ resp.req.scan_id \in Ids
    => /\ resp.status = 200
       /\ resp.body.violations = GetItem(produced[resp.req.scan_id], "violations").val
       /\ resp.body.recommendations
             = GetItem(produced[resp.req.scan_id], "recommendations").val

\* C7 (as claimed): GET /scan/{scan_id} answers 404 for an id no row has, and
\* for an id that exists it returns that row and no other.
C7_NotFoundOrThatRecord ==
    resp.op = "details"
    => IF resp.req.scan_id \notin Ids
       THEN resp.status = 404
       ELSE /\ resp.status = 200
            /\ resp.body.scan_id = resp.req.scan_id
            /\ resp.body.ad_copy = RowOf(resp.req.scan_id).ad_copy
            /\ resp.body.compliance_score = RowOf(resp.req.scan_id).compliance_score
            /\ resp.body.risk_level = RowOf(resp.req.scan_id).risk_level
            /\ resp.body.created_at = RowOf(resp.req.scan_id).created_at

\* C8: every step keeps every existing row as it is; the table changes only by
\* POST /scan appending one row whose id no earlier row has.
C8_RecordsImmutable ==
    [][/\ Len(store') >= Len(store)
       /\ \A i \in 1..Len(store) : store'[i] = store[i]
       /\ Len(store') <= Len(store) + 1
       /\ Len(store') = Len(store) + 1
             => /\ resp'.op = "scan"
                /\ store'[Len(store')].id \notin Ids]_vars

C8_Witness ==
    /\ Len(store) = 2
    /\ store[1].id # store[2].id
    /\ resp.op = "details"
    /\ resp.status = 200

----------------------------------------------------------------------------
(* analyze_with_ai on its own: every short reply text, and the long ones *)

ExtractInit ==
    /\ store = <<>>
    /\ produced = <<>>
    /\ resp = NoResp
    /\ dialect = "sqlite"
    /\ raw \in ShortTexts \cup ReplyTexts
    /\ cand = <<>>
    /\ result = Pending
    /\ pc = [r \in Reqs |-> "idle"]
    /\ req = [r \in Reqs |-> NoRequest]
    /\ session = [r \in Reqs |-> "none"]
    /\ local = [r \in Reqs |-> NoLocal]

\* the try block of analyze_with_ai on the reply text raw
Analyze ==
    /\ result = Pending
    /\ cand' = ExtractCandidate(raw)
    /\ result' = AnalyzeWithAi(CallText(raw))
    /\ UNCHANGED <<store, produced, resp, dialect, raw, pc, req, session, local>>

ExtractNext == Analyze

ExtractSpec == ExtractInit /\ [][ExtractNext]_vars

HasFence(text) ==
    \E i, j \in 1..Len(text) : i < j /\ text[i] = FenceOpen /\ text[j] = FenceClose
HasBraces(text) ==
    \E i, j \in 1..Len(text) : i < j /\ text[i] = LBRACE /\ text[j] = RBRACE

\* c is what lies between the first opening fence and the first closing fence
\* after it
IsFenceInner(text, c) ==
    \E i, j \in 1..Len(text) :
       /\ i < j
       /\ text[i] = FenceOpen
       /\ text[j] = FenceClose
       /\ \A k \in 1..(i - 1) : text[k] # FenceOpen
       /\ \A k \in (i + 1)..(j - 1) : text[k] # FenceClose
       /\ c = [k \in 1..(j - i - 1) |-> text[i + k]]

\* c runs from the first "{" to the last "}"
IsBraceSpan(text, c) ==
    \E i, j \in 1..Len(text) :
       /\ i < j
       /\ text[i] = LBRACE
       /\ text[j] = RBRACE
       /\ \A k \in 1..(i - 1) : text[k] # LBRACE
       /\ \A k \in (j + 1)..Len(text) : text[k] # RBRACE
       /\ c = [k \in 1..(j - i + 1) |-> text[i + k - 1]]

IsDegraded(v) ==
    /\ GetItem(v, "compliance_score") = [ok |-> TRUE, val |-> PyInt(50)]
    /\ GetItem(v, "risk_level") = [ok |-> TRUE, val |-> Str("MEDIUM")]
    /\ GetItem(v, "summary")
          = [ok |-> TRUE,
             val |-> Str("Analysis could not be completed due to technical error")]

\* C10: the candidate is the inner content of the fenced JSON block when the
\* reply has one, else the span from the first "{" to the last "}" when a "{"
\* is followed by a "}", else the reply itself; the result is the parse of that
\* one candidate, and the degraded result when that candidate is not valid JSON.
C10_CandidatePrecedence ==
    result # Pending
    => /\ IF HasFence(raw) THEN IsFenceInner(raw, cand)
          ELSE IF HasBraces(raw) THEN IsBraceSpan(raw, cand)
          ELSE cand = raw
       /\ IF JsonLoads(cand).ok THEN result = JsonLoads(cand).val
          ELSE IsDegraded(result)

C10_Witness ==
    /\ result # Pending
    /\ HasFence(raw)
    /\ BraceMatch(raw).found
    /\ JsonLoads(BraceMatch(raw).group).ok
    /\ ~JsonLoads(cand).ok
    /\ IsDegraded(result)

----------------------------------------------------------------------------
(* GET /history/{user_id}: two users, several clock readings, either engine *)

Users == {"u1", "anonymous"}

HistoryInit ==
    /\ store = <<>>
    /\ produced = <<>>
    /\ resp = NoResp
    /\ dialect \in {"sqlite", "postgresql"}
    /\ raw = <<>>
    /\ cand = <<>>
    /\ result = Pending
    /\ pc = [r \in Reqs |-> "idle"]
    /\ req = [r \in Reqs |-> NoRequest]
    /\ session = [r \in Reqs |-> "none"]
    /\ local = [r \in Reqs |-> NoLocal]

HistoryNext ==
    \/ \E user_id \in Users, now \in Times :
          ScanAd(user_id, ShortCopy, NoImage, CallText(CleanText), now, TRUE, MaxHistScans)
    \/ \E user_id \in Users, limit \in Limits \cup {DefaultLimit} :
          GetScanHistory(user_id, limit)

HistorySpec == HistoryInit /\ [][HistoryNext]_vars

\* C5 (as claimed): GET /history/{user_id} with limit = N returns at most N
\* entries, all of rows of that user, most recent first, for every integer N
\* the endpoint accepts.
C5_AtMostLimitNewestFirst ==
    resp.op = "history" /\ resp.status = 200
    => /\ Len(resp.body.scans) <= resp.req.limit
       /\ \A k \in 1..Len(resp.body.scans) :
             /\ resp.body.scans[k].scan_id \in Ids
             /\ RowOf(resp.body.scans[k].scan_id).user_id = resp.req.user_id
       /\ \A a, b \in 1..Len(resp.body.scans) :
             a < b => resp.body.scans[a].created_at >= resp.body.scans[b].created_at

----------------------------------------------------------------------------
(* The ad_copy_preview of GET /history/{user_id}: ad copies around 100
   characters *)

PreviewCopies == {ShortCopy} \cup LongCopies

PreviewNext ==
    \/ \E user_id \in Users, ad_copy \in PreviewCopies :
          ScanAd(user_id, ad_copy, Str("ad.jpg"), CallText(CleanText), 1, TRUE, MaxScans)
    \/ \E user_id \in Users, limit \in {1, DefaultLimit} :
          GetScanHistory(user_id, limit)

PreviewSpec == Init /\ [][PreviewNext]_vars

\* C6: every entry of GET /history/{user_id} has ad_copy_preview equal to the
\* row's ad_copy when that has at most 100 characters, and otherwise to its
\* first 100 characters followed by "..."; the marker follows no untruncated
\* ad_copy.
C6_PreviewTruncation ==
    resp.op = "history" /\ resp.status = 200
    => \A k \in 1..Len(resp.body.scans) :
          LET ad == RowOf(resp.body.scans[k].scan_id).ad_copy
              pv == resp.body.scans[k].ad_copy_preview
          IN IF Len(ad) <= 100 THEN pv = ad
             ELSE /\ Len(pv) = 103
                  /\ \A i \in 1..100 : pv[i] = ad[i]
                  /\ \A i \in 101..103 : pv[i] = "."

C6_Witness ==
    /\ resp.op = "history"
    /\ resp.status = 200
    /\ \E a, b \in 1..Len(resp.body.scans) :
          /\ Len(RowOf(resp.body.scans[a].scan_id).ad_copy) = 100
          /\ Len(RowOf(resp.body.scans[b].scan_id).ad_copy) > 100

----------------------------------------------------------------------------
(* The handlers statement by statement, for requests running concurrently *)

\* a reply that is answered, one whose row cannot be built, and one whose row
\* is committed but whose ScanResponse cannot be built
NoSummaryText == ReplyObj(<<N(100)>>, <<S("LOW")>>, Arr(<<>>), Arr(<<>>), <<>>)
SessionOutcomes ==
    {CallText(CleanText), CallText(<<LBRACE, RBRACE>>), CallText(NoSummaryText)}

ScansUnderWay == {q \in Reqs : req[q].kind = "scan" /\ pc[q] # "idle"}

\* POST /scan arrives: scan_ad runs up to the call of analyze_with_ai
ReceiveScan(r) ==
    /\ pc[r] = "idle"
    /\ Len(store) + Cardinality(ScansUnderWay) < MaxConcScans
    /\ pc' = [pc EXCEPT ![r] = "classify"]
    /\ req' = [req EXCEPT ![r] = Request("scan", "u1", 0, 0)]
    /\ session' = [session EXCEPT ![r] = "none"]
    /\ local' = [local EXCEPT ![r] = NoLocal]
    /\ UNCHANGED <<store, produced, resp, dialect, raw, cand, result>>

\* analysis = analyze_with_ai(ad_copy, image_data) returns
ClassifierReturns(r) ==
    /\ pc[r] = "classify"
    /\ \E outcome \in SessionOutcomes :
          local' = [local EXCEPT ![r] = Local(AnalyzeWithAi(outcome), 0, NoBody)]
    /\ pc' = [pc EXCEPT ![r] = "open"]
    /\ UNCHANGED <<store, produced, resp, dialect, raw, cand, result, req, session>>

\* GET /history/{user_id} or GET /scan/{scan_id} arrives
ReceiveGet(r) ==
    /\ pc[r] = "idle"
    /\ \E rq \in {Request("history", "u1", 0, DefaultLimit)}
               \cup {Request("details", "", id, 0) : id \in {1, MaxConcScans + 1}} :
          req' = [req EXCEPT ![r] = rq]
    /\ pc' = [pc EXCEPT ![r] = "open"]
    /\ session' = [session EXCEPT ![r] = "none"]
    /\ local' = [local EXCEPT ![r] = NoLocal]
    /\ UNCHANGED <<store, produced, resp, dialect, raw, cand, result>>

\* db = SessionLocal()
OpenSession(r) ==
    /\ pc[r] = "open"
    /\ session' = [session EXCEPT ![r] = "open"]
    /\ pc' = [pc EXCEPT ![r] = IF req[r].kind = "scan" THEN "persist" ELSE "query"]
    /\ UNCHANGED <<store, produced, resp, dialect, raw, cand, result, req, local>>

\* the same without try/finally: an exception leaves the handler at once
PersistNoFinally(r) ==
    /\ pc[r] = "persist"
    /\ \E dbUp \in BOOLEAN :
       \E o \in {ScanOutcome(store, req[r].user_id, ShortCopy, NoImage,
                             local[r].analysis, 1, dbUp)} :
          /\ store' = o.rows
          /\ produced' = IF o.committed THEN Append(produced, o.analysis) ELSE produced
          /\ local' = [local EXCEPT ![r] = Local(o.analysis, o.status, o.body)]
          /\ pc' = [pc EXCEPT ![r] = IF o.committed THEN "respond" ELSE "idle"]
    /\ UNCHANGED <<resp, dialect, raw, cand, result, req, session>>

\* scan_ad's try block up to db.refresh: it raises, or the row is committed
Persist(r) ==
    /\ pc[r] = "persist"
    /\ \E dbUp \in BOOLEAN :
       \E o \in {ScanOutcome(store, req[r].user_id, ShortCopy, NoImage,
                             local[r].analysis, 1, dbUp)} :
          /\ store' = o.rows
          /\ produced' = IF o.committed THEN Append(produced, o.analysis) ELSE produced
          /\ local' = [local EXCEPT ![r] = Local(o.analysis, o.status, o.body)]
          /\ pc' = [pc EXCEPT ![r] = IF o.committed THEN "respond" ELSE "finally"]
    /\ UNCHANGED <<resp, dialect, raw, cand, result, req, session>>

\* return ScanResponse(...): it is built, or its construction raises
Respond(r) ==
    /\ pc[r] = "respond"
    /\ pc' = [pc EXCEPT ![r] = "finally"]
    /\ UNCHANGED <<store, produced, resp, dialect, raw, cand, result, req, session, local>>

\* the try block of get_scan_history or get_scan_details: the query, then the
\* answer or the exception (HTTPException 404 among them)
Query(r) ==
    /\ pc[r] = "query"
    /\ IF req[r].kind = "history"
       THEN \E ordered \in OrderedRows(store, req[r].user_id) :
            \E q \in {Limited(ordered, req[r].limit, dialect)} :
               local' = [local EXCEPT ![r] =
                            IF q.ok
                            THEN Local(Pending, 200, HistoryBody(req[r].user_id, q.rows))
                            ELSE Local(Pending, 500, NoBody)]
       ELSE \E o \in {DetailsOutcome(store, req[r].scan_id)} :
               local' = [local EXCEPT ![r] = Local(Pending, o.status, o.body)]
    /\ pc' = [pc EXCEPT ![r] = "finally"]
    /\ UNCHANGED <<store, produced, resp, dialect, raw, cand, result, req, session>>

\* finally: db.close(); then the answer or the exception in local[r] leaves
\* the handler, and the request and its local variables are gone
Finally(r) ==
    /\ pc[r] = "finally"
    /\ session' = [session EXCEPT ![r] = "closed"]
    /\ pc' = [pc EXCEPT ![r] = "idle"]
    /\ req' = [req EXCEPT ![r] = NoRequest]
    /\ local' = [local EXCEPT ![r] = NoLocal]
    /\ UNCHANGED <<store, produced, resp, dialect, raw, cand, result>>

SessionNext ==
    \E r \in Reqs :
       \/ ReceiveScan(r)
       \/ ClassifierReturns(r)
       \/ ReceiveGet(r)
       \/ OpenSession(r)
       \/ Persist(r)
       \/ Respond(r)
       \/ Query(r)
       \/ Finally(r)

\* a handler that holds a session runs on: its statements return or raise
HoldingStep(r) == Persist(r) \/ Respond(r) \/ Query(r) \/ Finally(r)

SessionSpec == Init /\ [][SessionNext]_vars /\ \A r \in Reqs : WF_vars(HoldingStep(r))

\* C9: no request holds a session while its classifier call is in flight, a
\* scan's session is opened only once its analysis has returned, and every
\* session that is opened is closed, whichever way the handler exits.
C9_SessionScoped ==
    /\ [](\A r \in Reqs :
             /\ pc[r] = "classify" => session[r] # "open"
             /\ (session[r] = "open" /\ req[r].kind = "scan")
                   => local[r].analysis # Pending)
    /\ \A r \in Reqs : (session[r] = "open") ~> (session[r] = "closed")

C9_Witness ==
    \E r, q \in Reqs :
       /\ req[r].kind = "scan"
       /\ pc[r] = "finally"
       /\ session[r] = "open"
       /\ local[r].status = 500
       /\ Len(store) = 1
       /\ q # r
       /\ session[q] = "open"

====
